---- MODULE Spec2Model ----
(***************************************************************************)
(* Model of the omsim-rs byte-stream decoder (src/src/parse.rs) and of the *)
(* closed lookups of its data model (src/src/data.rs).                     *)
(*                                                                         *)
(* A byte is a number in 0..255 and a buffer is a sequence of bytes.  The  *)
(* parser `BaseParser { data: &[u8] }` is the sequence of bytes not yet    *)
(* consumed.  Every parse_* method takes the remaining bytes and returns   *)
(* an outcome record                                                       *)
(*     [st, val, err, data]                                                *)
(* where st is "ok" (Ok(val)), "err" (Err(err)) or "panic" (the thread     *)
(* unwinds with message err), and data is the parser's remaining view when *)
(* the method returns.  The `?` operator hands a non-ok outcome on as is.  *)
(***************************************************************************)
EXTENDS Integers, Sequences, FiniteSets, Bags, TLC

VARIABLES
    op,               \* the decoder entry that is called on buf
    elem,             \* the element decoder handed to parse_list ("" for the other entries)
    buf,              \* data: &[u8], the caller's buffer
    overflow_checks,  \* whether the build traps on integer overflow (debug) or wraps (release)
    pc,               \* "ready" before the call, "done" after it returned
    res               \* the outcome of the call

vars == <<op, elem, buf, overflow_checks, pc, res>>

----------------------------------------------------------------------------
(* Outcomes *)

Ok(v, d) == [st |-> "ok", val |-> v, err |-> "", data |-> d]

Err(e, d) == [st |-> "err", val |-> <<>>, err |-> e, data |-> d]

Panic(m, d) == [st |-> "panic", val |-> <<>>, err |-> m, data |-> d]

None == [some |-> FALSE]

Some(v) == [some |-> TRUE, v |-> v]

(* &self.data[n..] *)
SliceFrom(d, n) == SubSeq(d, n + 1, Len(d))

(* &self.data[..n] *)
SliceTo(d, n) == SubSeq(d, 1, n)

----------------------------------------------------------------------------
(* Machine arithmetic on bytes and words *)

RECURSIVE BitAnd(_, _)
BitAnd(a, b) ==
    IF a = 0 \/ b = 0 THEN 0
    ELSE (a % 2) * (b % 2) + 2 * BitAnd(a \div 2, b \div 2)

RECURSIVE BitOr(_, _)
BitOr(a, b) ==
    IF a = 0 THEN b
    ELSE IF b = 0 THEN a
    ELSE (IF a % 2 = 1 \/ b % 2 = 1 THEN 1 ELSE 0) + 2 * BitOr(a \div 2, b \div 2)

RECURSIVE Shl(_, _)
Shl(a, n) == IF n = 0 THEN a ELSE Shl(2 * a, n - 1)

(* i8::from_be_bytes *)
i8_from_be_bytes(b) == IF b[1] >= 128 THEN b[1] - 256 ELSE b[1]

(* i32::from_le_bytes: two's complement of the four bytes, lowest first *)
i32_from_le_bytes(b) ==
    b[1] + 256 * b[2] + 65536 * b[3]
      + 16777216 * (IF b[4] >= 128 THEN b[4] - 256 ELSE b[4])

(* u64::from_le_bytes: the value as the set of its bits that are set, bit 0 *)
(* being the lowest bit of the first byte                                   *)
u64_from_le_bytes(b) ==
    {8 * (i - 1) + j : i \in 1..8, j \in 0..7} \cap
    {k \in 0..63 : (b[(k \div 8) + 1] \div Shl(1, k % 8)) % 2 = 1}

(* parser.parse_int()? + 1 on an i32 *)
i32_add_one(v) ==
    IF v = 2147483647
    THEN IF overflow_checks THEN None ELSE Some(-2147483647 - 1)
    ELSE Some(v + 1)

(* String::from_utf8 accepts exactly the well-formed UTF-8 byte sequences *)
IsCont(b) == b >= 128 /\ b <= 191

RECURSIVE is_utf8(_)
is_utf8(s) ==
    IF Len(s) = 0 THEN TRUE
    ELSE LET b == s[1] IN
      IF b < 128 THEN is_utf8(SliceFrom(s, 1))
      ELSE IF b >= 194 /\ b <= 223
        THEN Len(s) >= 2 /\ IsCont(s[2]) /\ is_utf8(SliceFrom(s, 2))
      ELSE IF b >= 224 /\ b <= 239
        THEN /\ Len(s) >= 3
             /\ IsCont(s[2]) /\ IsCont(s[3])
             /\ (b = 224 => s[2] >= 160)
             /\ (b = 237 => s[2] <= 159)
             /\ is_utf8(SliceFrom(s, 3))
      ELSE IF b >= 240 /\ b <= 244
        THEN /\ Len(s) >= 4
             /\ IsCont(s[2]) /\ IsCont(s[3]) /\ IsCont(s[4])
             /\ (b = 240 => s[2] >= 144)
             /\ (b = 244 => s[2] <= 143)
             /\ is_utf8(SliceFrom(s, 4))
      ELSE FALSE

----------------------------------------------------------------------------
(* data.rs: closed lookups.  A string is the sequence of its UTF-8 bytes. *)

ChamberTypeTable ==
  <<
    [name |-> <<83, 109, 97, 108, 108>>, ty |-> "Small"],                             \* "Small"
    [name |-> <<83, 109, 97, 108, 108, 87, 105, 100, 101>>, ty |-> "SmallWide"],      \* "SmallWide"
    [name |-> <<83, 109, 97, 108, 108, 87, 105, 100, 101, 114>>, ty |-> "SmallWider"],\* "SmallWider"
    [name |-> <<77, 101, 100, 105, 117, 109>>, ty |-> "Medium"],                      \* "Medium"
    [name |-> <<77, 101, 100, 105, 117, 109, 87, 105, 100, 101>>, ty |-> "MediumWide"],\* "MediumWide"
    [name |-> <<76, 97, 114, 103, 101>>, ty |-> "Large"]                              \* "Large"
  >>

ChamberType_from_name(name) ==
    IF \E i \in DOMAIN ChamberTypeTable : ChamberTypeTable[i].name = name
    THEN Some(ChamberTypeTable[CHOOSE i \in DOMAIN ChamberTypeTable :
                                  ChamberTypeTable[i].name = name].ty)
    ELSE None

AtomTable ==
    <<"Salt", "Air", "Earth", "Fire", "Water", "Quicksilver", "Gold", "Silver",
      "Copper", "Iron", "Tin", "Lead", "Vitae", "Mors", "Repeat", "Quintessence">>

Atom_from_id(id) == IF id \in DOMAIN AtomTable THEN Some(AtomTable[id]) ELSE None

PartTypeTable ==
  <<
    [name |-> <<105, 110, 112, 117, 116>>, ty |-> "Input"],                   \* "input"
    [name |-> <<111, 117, 116, 45, 115, 116, 100>>, ty |-> "Output"],         \* "out-std"
    [name |-> <<111, 117, 116, 45, 114, 101, 112>>, ty |-> "PolymerOutput"],  \* "out-rep"
    [name |-> <<97, 114, 109, 49>>, ty |-> "Arm"],                            \* "arm1"
    [name |-> <<97, 114, 109, 50>>, ty |-> "BiArm"],                          \* "arm2"
    [name |-> <<97, 114, 109, 51>>, ty |-> "TriArm"],                         \* "arm3"
    [name |-> <<97, 114, 109, 54>>, ty |-> "HexArm"],                         \* "arm6"
    [name |-> <<112, 105, 115, 116, 111, 110>>, ty |-> "PistonArm"],          \* "piston"
    [name |-> <<116, 114, 97, 99, 107>>, ty |-> "Track"],                     \* "track"
    [name |-> <<98, 97, 114, 111, 110>>, ty |-> "Berlo"],                     \* "baron"
    [name |-> <<103, 108, 121, 112, 104, 45, 109, 97, 114, 107, 101, 114>>,
     ty |-> "Equilibrium"],                                                   \* "glyph-marker"
    [name |-> <<98, 111, 110, 100, 101, 114>>, ty |-> "Bonding"],             \* "bonder"
    [name |-> <<98, 111, 110, 100, 101, 114, 45, 115, 112, 101, 101, 100>>,
     ty |-> "MultiBonding"],                                                  \* "bonder-speed"
    [name |-> <<117, 110, 98, 111, 110, 100, 101, 114>>, ty |-> "Debonding"], \* "unbonder"
    [name |-> <<103, 108, 121, 112, 104, 45, 99, 97, 108, 99, 105, 102, 105, 99, 97,
                116, 105, 111, 110>>, ty |-> "Calcification"],                \* "glyph-calcification"
    [name |-> <<103, 108, 121, 112, 104, 45, 112, 114, 111, 106, 101, 99, 116, 105,
                111, 110>>, ty |-> "Projection"],                             \* "glyph-projection"
    [name |-> <<103, 108, 121, 112, 104, 45, 112, 117, 114, 105, 102, 105, 99, 97,
                116, 105, 111, 110>>, ty |-> "Purification"],                 \* "glyph-purification"
    [name |-> <<103, 108, 121, 112, 104, 45, 100, 117, 112, 108, 105, 99, 97, 116,
                105, 111, 110>>, ty |-> "Duplication"],                       \* "glyph-duplication"
    [name |-> <<103, 108, 121, 112, 104, 45, 108, 105, 102, 101, 45, 97, 110, 100,
                45, 100, 101, 97, 116, 104>>, ty |-> "Animismus"],            \* "glyph-life-and-death"
    [name |-> <<103, 108, 121, 112, 104, 45, 117, 110, 105, 102, 105, 99, 97, 116,
                105, 111, 110>>, ty |-> "Unification"],                       \* "glyph-unification"
    [name |-> <<103, 108, 121, 112, 104, 45, 100, 105, 115, 112, 101, 114, 115, 105,
                111, 110>>, ty |-> "Dispersion"],                             \* "glyph-dispersion"
    [name |-> <<98, 111, 110, 100, 101, 114, 45, 112, 114, 105, 115, 109, 97>>,
     ty |-> "TriplexBonding"],                                                \* "bonder-prisma"
    [name |-> <<103, 108, 121, 112, 104, 45, 100, 105, 115, 112, 111, 115, 97, 108>>,
     ty |-> "Disposal"],                                                      \* "glyph-disposal"
    [name |-> <<112, 105, 112, 101>>, ty |-> "Conduit"]                       \* "pipe"
  >>

PartType_from_name(name) ==
    IF \E i \in DOMAIN PartTypeTable : PartTypeTable[i].name = name
    THEN Some(PartTypeTable[CHOOSE i \in DOMAIN PartTypeTable :
                               PartTypeTable[i].name = name].ty)
    ELSE None

InstructionTable ==
    {<<32, "Blank">>, <<71, "Grab">>, <<103, "Drop">>,
     <<82, "RotateClockwise">>, <<114, "RotateAnticlockwise">>,
     <<69, "Extend">>, <<101, "Retract">>,
     <<80, "PivotClockwise">>, <<112, "PivotAnticlockwise">>,
     <<65, "Advance">>, <<97, "Retreat">>,
     <<79, "PeriodOverride">>, <<88, "Reset">>, <<67, "Repeat">>}

Instruction_from_id(id) ==
    IF \E e \in InstructionTable : e[1] = id
    THEN Some((CHOOSE e \in InstructionTable : e[1] = id)[2])
    ELSE None

(* the literals the decoder compares part names with *)
NameTrack == <<116, 114, 97, 99, 107>>    \* "track"

NamePipe == <<112, 105, 112, 101>>        \* "pipe"

----------------------------------------------------------------------------
(* parse.rs: BaseParser *)

parse_byte(d) ==
    IF Len(d) = 0 THEN Err("not enough bytes", d)
    ELSE Ok(d[1], SliceFrom(d, 1))

parse_sbyte(d) ==
    IF Len(d) = 0 THEN Err("not enough bytes", d)
    ELSE Ok(i8_from_be_bytes(<<d[1]>>), SliceFrom(d, 1))

parse_bool(d) ==
    LET r == parse_byte(d) IN
    IF r.st # "ok" THEN r ELSE Ok(r.val # 0, r.data)

parse_int(d) ==
    IF Len(d) >= 4 THEN Ok(i32_from_le_bytes(SliceTo(d, 4)), SliceFrom(d, 4))
    ELSE Err("not enough bytes to read int", d)

parse_long(d) ==
    IF Len(d) >= 8 THEN Ok(u64_from_le_bytes(SliceTo(d, 8)), SliceFrom(d, 8))
    ELSE Err("not enough bytes to read long", d)

parse_ulong(d) ==
    IF Len(d) >= 8 THEN Ok(u64_from_le_bytes(SliceTo(d, 8)), SliceFrom(d, 8))
    ELSE Err("not enough bytes to read ulong", d)

(* A function body that is a run of `let x = self.parse_..()?;` lines is a   *)
(* chain of steps over a frame [st, val, err, data, env]: env holds the     *)
(* locals bound so far, data the parser's view.  The first step is the      *)
(* innermost one, so a chain reads top to bottom along its argument lines.  *)
(* A step does nothing once an earlier step has returned early.             *)
Begin(d) == [st |-> "ok", val |-> <<>>, err |-> "", data |-> d, env |-> <<>>]

(* let key = P(self)?; *)
Let(fr, key, P(_)) ==
    IF fr.st # "ok" THEN fr
    ELSE LET r == P(fr.data) IN
         IF r.st # "ok" THEN r
         ELSE [st |-> "ok", val |-> <<>>, err |-> "", data |-> r.data,
               env |-> (key :> r.val) @@ fr.env]

(* let key = P(locals, self)?;  for a step that reads earlier locals *)
LetWith(fr, key, P(_, _)) ==
    IF fr.st # "ok" THEN fr
    ELSE LET r == P(fr.env, fr.data) IN
         IF r.st # "ok" THEN r
         ELSE [st |-> "ok", val |-> <<>>, err |-> "", data |-> r.data,
               env |-> (key :> r.val) @@ fr.env]

(* if !C(locals) { return Err(e) } *)
Require(fr, C(_), e) ==
    IF fr.st # "ok" THEN fr
    ELSE IF C(fr.env) THEN fr ELSE Err(e, fr.data)

(* the expression the body ends with; F yields an outcome from the locals *)
Finish(fr, F(_, _)) == IF fr.st # "ok" THEN fr ELSE F(fr.env, fr.data)

(* the test that ends the loop of parse_var_int: `(next & 0x80) != 1` *)
var_int_break(next) == BitAnd(next, 128) # 1

RECURSIVE var_int_loop(_, _, _)
var_int_loop(d, value, shift) ==
    IF Len(d) > 0
    THEN LET r == parse_byte(d) IN
         IF r.st # "ok" THEN r
         ELSE IF var_int_break(r.val)
         THEN Ok(BitOr(value, Shl(BitAnd(r.val, 127), shift)), r.data)
         ELSE var_int_loop(r.data, BitOr(value, Shl(BitAnd(r.val, 127), shift)), shift + 7)
    ELSE Ok(value, d)

parse_var_int(d) == var_int_loop(d, 0, 0)

(* parse_string after its length: the slice, the UTF-8 check, the advance *)
take_string(e, d) ==
    IF e.length > Len(d)
    THEN Panic("range end index out of range for slice", d)
    ELSE IF ~is_utf8(SliceTo(d, e.length))
    THEN Err("invalid utf8", d)
    ELSE Ok(SliceTo(d, e.length), SliceFrom(d, e.length))

parse_string(d) == Finish(Let(Begin(d), "length", parse_var_int), take_string)

parse_b_hex_index(d) ==
    Finish(Let(Let(Begin(d),
        "q", parse_sbyte),
        "r", parse_sbyte),
        LAMBDA e, p : Ok([q |-> e.q, r |-> e.r], p))

parse_i_hex_index(d) ==
    Finish(Let(Let(Begin(d),
        "q", parse_int),
        "r", parse_int),
        LAMBDA e, p : Ok([q |-> e.q, r |-> e.r], p))

parse_atom(d) ==
    LET b == parse_byte(d) IN
    IF b.st # "ok" THEN b
    ELSE IF Atom_from_id(b.val).some THEN Ok(Atom_from_id(b.val).v, b.data)
    ELSE Err("invalid atom type", b.data)

(* parse_bond_type with the mask 0b1111_000_0: bit 0 no longer rejected *)
parse_bond_type_mask240(d) ==
    LET b == parse_byte(d) IN
    IF b.st # "ok" THEN b
    ELSE IF b.val = 1 THEN Ok([kind |-> "Normal"], b.data)
    ELSE IF BitAnd(b.val, 240) # 0 THEN Err("invalid bond type", b.data)
    ELSE Ok([kind |-> "Triplex",
             red |-> BitAnd(b.val, 2) # 0,
             black |-> BitAnd(b.val, 4) # 0,
             yellow |-> BitAnd(b.val, 8) # 0], b.data)

parse_bond_type(d) ==
    LET b == parse_byte(d) IN
    IF b.st # "ok" THEN b
    ELSE IF b.val = 1 THEN Ok([kind |-> "Normal"], b.data)
    ELSE IF BitAnd(b.val, 241) # 0 THEN Err("invalid bond type", b.data)
    ELSE Ok([kind |-> "Triplex",
             red |-> BitAnd(b.val, 2) # 0,
             black |-> BitAnd(b.val, 4) # 0,
             yellow |-> BitAnd(b.val, 8) # 0], b.data)

parse_bond(d) ==
    Finish(Let(Let(Let(Begin(d),
        "ty", parse_bond_type),
        "start", parse_b_hex_index),
        "end", parse_b_hex_index),
        LAMBDA e, p : Ok([ty |-> e.ty, start |-> e.start, end |-> e.end], p))

(* Vec::with_capacity(amount as usize): a negative i32 becomes a usize above *)
(* isize::MAX and the constructor panics; every element type here has a     *)
(* non-zero size.                                                           *)
with_capacity(amount) == IF amount < 0 THEN None ELSE Some(<<>>)

(* HashMap::from_iter over (key, value) pairs: inserts in order, a later    *)
(* insert at a key replaces the value                                       *)
(* an insert that keeps the value already stored under the key *)
hashmap_insert_keep(m, k, v) == [x \in (DOMAIN m) \cup {k} |-> IF x \in DOMAIN m THEN m[x] ELSE v]

hashmap_insert(m, k, v) == [x \in (DOMAIN m) \cup {k} |-> IF x = k THEN v ELSE m[x]]

RECURSIVE hashmap_from_iter(_, _)
hashmap_from_iter(m, list) ==
    IF Len(list) = 0 THEN m
    ELSE hashmap_from_iter(hashmap_insert(m, list[1][1], list[1][2]), Tail(list))

(* HashSet::from_iter: the collection as a bag; inserting a value that is   *)
(* already present leaves the collection as it is                           *)
hashset_insert(s, x) == IF BagIn(x, s) THEN s ELSE s (+) SetToBag({x})

RECURSIVE hashset_from_iter(_, _)
hashset_from_iter(s, list) ==
    IF Len(list) = 0 THEN s
    ELSE hashset_from_iter(hashset_insert(s, list[1]), Tail(list))

(* parse_list and the element decoders that read lists call each other *)
RECURSIVE parse_list(_, _)
RECURSIVE call_f(_, _)
RECURSIVE list_loop(_, _, _, _, _)
RECURSIVE parse_molecule(_)
RECURSIVE parse_conduit(_)
RECURSIVE parse_track_hexes(_, _)
RECURSIVE parse_conduit_fields(_, _)
RECURSIVE parse_part(_)

(* the closure of parse_molecule's first list: |s| (index, atom) *)
parse_atom_entry(d) ==
    Finish(Let(Let(Begin(d),
        "atom", parse_atom),
        "index", parse_b_hex_index),
        LAMBDA e, p : Ok(<<e.index, e.atom>>, p))

parse_molecule(d) ==
    Finish(Let(Let(Begin(d),
        "atoms", LAMBDA p : parse_list(p, "parse_atom_entry")),
        "bonds", LAMBDA p : parse_list(p, "parse_bond")),
        LAMBDA e, p : Ok([atoms |-> hashmap_from_iter(<<>>, e.atoms),
                          bonds |-> hashset_from_iter(EmptyBag, e.bonds)], p))

(* ChamberType::from_name(&p.parse_string()?).ok_or("invalid chamber type")? *)
parse_chamber_type(d) ==
    Finish(Let(Begin(d), "name", parse_string),
        LAMBDA e, p : IF ChamberType_from_name(e.name).some
                      THEN Ok(ChamberType_from_name(e.name).v, p)
                      ELSE Err("invalid chamber type", p))

(* parse_puzzle's closure for one Chamber *)
parse_chamber(d) ==
    Finish(Let(Let(Begin(d),
        "pos", parse_b_hex_index),
        "ty", parse_chamber_type),
        LAMBDA e, p : Ok([pos |-> e.pos, ty |-> e.ty], p))

(* parse_puzzle's closure for one Conduit *)
parse_conduit(d) ==
    Finish(Let(Let(Let(Begin(d),
        "pos_a", parse_b_hex_index),
        "pos_b", parse_b_hex_index),
        "hexes", LAMBDA p : parse_list(p, "parse_b_hex_index")),
        LAMBDA e, p : Ok([pos_a |-> e.pos_a, pos_b |-> e.pos_b, hexes |-> e.hexes], p))

(* parse_solution's closure for one entry of the instruction tape *)
parse_instruction(d) ==
    Finish(Let(Let(Begin(d),
        "idx", parse_int),
        "instr", parse_byte),
        LAMBDA e, p : IF Instruction_from_id(e.instr).some
                      THEN Ok(<<Instruction_from_id(e.instr).v, e.idx>>, p)
                      ELSE Err("invalid instruction id", p))

(* parse_solution: the conditional track list of a part *)
(* the track list read under the name "pipe" instead of "track" *)
parse_track_hexes_pipe(part_name, d) ==
    IF part_name = NamePipe THEN parse_list(d, "parse_i_hex_index")
    ELSE Ok(<<>>, d)

parse_track_hexes(part_name, d) ==
    IF part_name = NameTrack THEN parse_list(d, "parse_i_hex_index")
    ELSE Ok(<<>>, d)

(* parse_solution: the conditional conduit index and conduit list of a part, *)
(* as the pair (conduit_index, conduit_hexes)                                *)
parse_conduit_fields(part_name, d) ==
    IF part_name = NamePipe
    THEN Finish(Let(Let(Begin(d),
             "conduit_index", parse_int),
             "conduit_hexes", LAMBDA p : parse_list(p, "parse_i_hex_index")),
             LAMBDA e, p : Ok(<<e.conduit_index, e.conduit_hexes>>, p))
    ELSE Ok(<<0, <<>>>>, d)

(* parse_solution:  p.parse_int()? + 1 *)
parse_arm_number(d) ==
    LET raw == parse_int(d) IN
    IF raw.st # "ok" THEN raw
    ELSE IF i32_add_one(raw.val).some THEN Ok(i32_add_one(raw.val).v, raw.data)
    ELSE Panic("attempt to add with overflow", raw.data)

(* parse_solution: the Ok(Part{ .. }) that ends the part closure, where the *)
(* name is resolved                                                         *)
build_part(e, d) ==
    IF ~PartType_from_name(e.part_name).some THEN Err("invalid part type", d)
    ELSE Ok([ty |-> PartType_from_name(e.part_name).v,
             pos |-> e.pos, rotation |-> e.rotation,
             arm_number |-> e.arm_number, arm_length |-> e.arm_length,
             index |-> e.index, conduit_index |-> e.conduit[1],
             track_hexes |-> e.track_hexes, conduit_hexes |-> e.conduit[2],
             instructions |-> e.instructions], d)

(* parse_solution's closure for one Part *)
(* parse_part with the name resolved as soon as it has been read *)
parse_part_name_first(d) ==
    Finish(LetWith(Let(LetWith(Let(Let(Let(Let(Let(Require(Let(Require(Let(Begin(d),
        "part_name", parse_string),
        LAMBDA e : PartType_from_name(e.part_name).some, "invalid part type"),
        "one", parse_byte),
        LAMBDA e : e.one = 1, "invalid solution part (1 != 1)"),
        "pos", parse_i_hex_index),
        "arm_length", parse_int),
        "rotation", parse_int),
        "index", parse_int),
        "instructions", LAMBDA p : parse_list(p, "parse_instruction")),
        "track_hexes", LAMBDA e, p : parse_track_hexes(e.part_name, p)),
        "arm_number", parse_arm_number),
        "conduit", LAMBDA e, p : parse_conduit_fields(e.part_name, p)),
        build_part)

parse_part(d) ==
    Finish(LetWith(Let(LetWith(Let(Let(Let(Let(Let(Require(Let(Let(Begin(d),
        "part_name", parse_string),
        "one", parse_byte),
        LAMBDA e : e.one = 1, "invalid solution part (1 != 1)"),
        "pos", parse_i_hex_index),
        "arm_length", parse_int),
        "rotation", parse_int),
        "index", parse_int),
        "instructions", LAMBDA p : parse_list(p, "parse_instruction")),
        "track_hexes", LAMBDA e, p : parse_track_hexes(e.part_name, p)),
        "arm_number", parse_arm_number),
        "conduit", LAMBDA e, p : parse_conduit_fields(e.part_name, p)),
        build_part)

(* the element decoder a parse_list call was handed *)
call_f(f, d) ==
    CASE f = "parse_molecule" -> parse_molecule(d)
      [] f = "parse_atom_entry" -> parse_atom_entry(d)
      [] f = "parse_bond" -> parse_bond(d)
      [] f = "parse_chamber" -> parse_chamber(d)
      [] f = "parse_conduit" -> parse_conduit(d)
      [] f = "parse_b_hex_index" -> parse_b_hex_index(d)
      [] f = "parse_i_hex_index" -> parse_i_hex_index(d)
      [] f = "parse_instruction" -> parse_instruction(d)
      [] f = "parse_part" -> parse_part(d)

(* result.push(f(self)?) and the next turn of the loop; e is f's outcome *)
list_push(e, f, i, amount, result) ==
    IF e.st # "ok" THEN e
    ELSE list_loop(e.data, f, i + 1, amount, Append(result, e.val))

(* for _ in 0..amount { .. } *)
list_loop(d, f, i, amount, result) ==
    IF i >= amount THEN Ok(result, d)
    ELSE list_push(call_f(f, d), f, i, amount, result)

parse_list(d, f) ==
    LET amount == parse_int(d) IN
    IF amount.st # "ok" THEN amount
    ELSE IF ~with_capacity(amount.val).some THEN Panic("capacity overflow", amount.data)
    ELSE list_loop(amount.data, f, 0, amount.val, with_capacity(amount.val).v)

(* parse_puzzle: the fields behind a true production-info flag *)
parse_production_body(d) ==
    Finish(Let(Let(Let(Let(Let(Begin(d),
        "shrink_left", parse_bool),
        "shrink_right", parse_bool),
        "isolation", parse_bool),
        "chambers", LAMBDA p : parse_list(p, "parse_chamber")),
        "conduits", LAMBDA p : parse_list(p, "parse_conduit")),
        LAMBDA e, p : Ok(Some([isolation |-> e.isolation, chambers |-> e.chambers,
                               conduits |-> e.conduits]), p))

(* parse_puzzle: let production_info = if parser.parse_bool()? { .. } else { None } *)
parse_production_info(d) ==
    LET present == parse_bool(d) IN
    IF present.st # "ok" THEN present
    ELSE IF present.val THEN parse_production_body(present.data)
    ELSE Ok(None, present.data)

(* parse_puzzle with the version compared after the name has been read *)
parse_puzzle_name_first(data) ==
    Finish(Let(Let(Let(Let(Let(Let(Require(Let(Let(Begin(data),
        "version", parse_int),
        "name", parse_string),
        LAMBDA e : e.version = 3, "not an opus magnum puzzle"),
        "creator_id", parse_ulong),
        "permissions", parse_ulong),
        "reagents", LAMBDA p : parse_list(p, "parse_molecule")),
        "products", LAMBDA p : parse_list(p, "parse_molecule")),
        "product_multiplier", parse_int),
        "production_info", parse_production_info),
        LAMBDA e, p : Ok([name |-> e.name, creator_id |-> e.creator_id,
                          reagents |-> e.reagents, products |-> e.products,
                          permissions |-> e.permissions,
                          product_multiplier |-> e.product_multiplier,
                          production_info |-> e.production_info], p))

parse_puzzle(data) ==
    Finish(Let(Let(Let(Let(Let(Let(Let(Require(Let(Begin(data),
        "version", parse_int),
        LAMBDA e : e.version = 3, "not an opus magnum puzzle"),
        "name", parse_string),
        "creator_id", parse_ulong),
        "permissions", parse_ulong),
        "reagents", LAMBDA p : parse_list(p, "parse_molecule")),
        "products", LAMBDA p : parse_list(p, "parse_molecule")),
        "product_multiplier", parse_int),
        "production_info", parse_production_info),
        LAMBDA e, p : Ok([name |-> e.name, creator_id |-> e.creator_id,
                          reagents |-> e.reagents, products |-> e.products,
                          permissions |-> e.permissions,
                          product_multiplier |-> e.product_multiplier,
                          production_info |-> e.production_info], p))

(* parse_solution: the arm `4 => { .. }` of the match on the discriminator *)
parse_metrics_body(d) ==
    Finish(Let(Require(Let(Let(Require(Let(Let(Require(Let(Let(Require(Let(Begin(d),
        "s0", parse_int),
        LAMBDA e : e.s0 = 0, "invalid solution (0 != 0)"),
        "cycles", parse_int),
        "s1", parse_int),
        LAMBDA e : e.s1 = 1, "invalid solution (1 != 1)"),
        "cost", parse_int),
        "s2", parse_int),
        LAMBDA e : e.s2 = 2, "invalid solution (2 != 2)"),
        "area", parse_int),
        "s3", parse_int),
        LAMBDA e : e.s3 = 3, "invalid solution (3 != 3)"),
        "instructions", parse_int),
        LAMBDA e, p : Ok(Some([cycles |-> e.cycles, cost |-> e.cost, area |-> e.area,
                               instructions |-> e.instructions]), p))

(* parse_solution: let metrics = match parser.parse_int()? { .. } *)
(* the match without its default arm: every discriminator but 0 reads metrics *)
parse_metrics_any(d) ==
    LET tag == parse_int(d) IN
    IF tag.st # "ok" THEN tag
    ELSE IF tag.val = 0 THEN Ok(None, tag.data)
    ELSE parse_metrics_body(tag.data)

parse_metrics(d) ==
    LET tag == parse_int(d) IN
    IF tag.st # "ok" THEN tag
    ELSE IF tag.val = 0 THEN Ok(None, tag.data)
    ELSE IF tag.val = 4 THEN parse_metrics_body(tag.data)
    ELSE Err("invalid number of metrics", tag.data)

parse_solution(data) ==
    Finish(Let(Let(Let(Let(Require(Let(Begin(data),
        "version", parse_int),
        LAMBDA e : e.version = 7, "not an opus magnum solution"),
        "puzzle_name", parse_string),
        "name", parse_string),
        "metrics", parse_metrics),
        "parts", LAMBDA p : parse_list(p, "parse_part")),
        LAMBDA e, p : Ok([name |-> e.name, puzzle_name |-> e.puzzle_name,
                          metrics |-> e.metrics, parts |-> e.parts], p))

----------------------------------------------------------------------------
(* Buffers the decoder is called on.  They are written with the format's    *)
(* own layout (an encoder the repository does not have), then cut short or  *)
(* damaged in one byte.                                                     *)

MaxVarIntLen == 3    \* longest buffer handed to parse_var_int alone

MaxListLen == 3      \* most elements behind a count handed to parse_list alone

MaxAtoms == 3        \* most atom entries of a molecule handed to parse_molecule alone

MaxBonds == 2        \* most bond entries of a molecule handed to parse_molecule alone

I32Min == -2147483647 - 1

EncByte(v) == <<(v + 256) % 256>>

EncInt(n) ==
    LET m == IF n < 0 THEN n + 2147483647 + 1 ELSE n IN
    <<m % 256, (m \div 256) % 256, (m \div 65536) % 256,
      (m \div 16777216) + (IF n < 0 THEN 128 ELSE 0)>>

EncStr(s) == <<Len(s)>> \o s

EncHexB(q, r) == EncByte(q) \o EncByte(r)

EncHexI(q, r) == EncInt(q) \o EncInt(r)

RECURSIVE Flat(_)
Flat(ss) == IF Len(ss) = 0 THEN <<>> ELSE ss[1] \o Flat(Tail(ss))

EncInts(ns) == Flat([i \in DOMAIN ns |-> EncInt(ns[i])])

Prefixes(b) == {SubSeq(b, 1, n) : n \in 0..(Len(b) - 1)}

MutBytes == {0, 1, 3, 128, 255}

Damaged(b) == {[b EXCEPT ![i] = v] : i \in 1..Len(b), v \in MutBytes}

Variants(b) == {b} \cup Prefixes(b) \cup Damaged(b)

(* part records *)
PartArm ==
    EncStr(<<97, 114, 109, 49>>) \o <<1>> \o EncHexI(1, -1)
      \o EncInts(<<1, 0, 0>>) \o EncInt(1) \o EncInt(0) \o <<71>> \o EncInt(0)

PartTrack ==
    EncStr(NameTrack) \o <<1>> \o EncHexI(0, 0)
      \o EncInts(<<0, 0, 1>>) \o EncInt(0)
      \o EncInt(2) \o EncHexI(0, 0) \o EncHexI(1, 0) \o EncInt(0)

PartPipe ==
    EncStr(NamePipe) \o <<1>> \o EncHexI(2, 3)
      \o EncInts(<<0, 0, 2>>) \o EncInt(0) \o EncInt(0)
      \o EncInt(1) \o EncInt(1) \o EncHexI(2, 4)

PartPiston ==
    EncStr(<<112, 105, 115, 116, 111, 110>>) \o <<1>> \o EncHexI(-2, 0)
      \o EncInts(<<2, 5, 3>>) \o EncInt(0) \o EncInt(1)

PartUnknown ==
    EncStr(<<120, 120>>) \o <<1>> \o EncHexI(0, 0)
      \o EncInts(<<1, 0, 0>>) \o EncInt(1) \o EncInt(3) \o <<82>> \o EncInt(0)

PartArmLast ==
    EncStr(<<97, 114, 109, 49>>) \o <<1>> \o EncHexI(0, 0)
      \o EncInts(<<1, 0, 0>>) \o EncInt(0) \o EncInt(2147483647)

MetricsBody == EncInts(<<4, 0, 120, 1, 45, 2, 9, 3, 30>>)

(* solutions *)
SolutionA ==
    EncInt(7) \o EncStr(<<80, 49>>) \o EncStr(<<115>>) \o MetricsBody
      \o EncInt(2) \o PartArm \o PartTrack

SolutionB ==
    EncInt(7) \o EncStr(<<>>) \o EncStr(<<>>) \o EncInt(0)
      \o EncInt(2) \o PartPipe \o PartPiston

SolutionC == EncInt(7) \o EncStr(<<80>>) \o EncStr(<<>>) \o EncInt(0) \o EncInt(1) \o PartArmLast

SolutionD == EncInt(7) \o EncStr(<<80>>) \o EncStr(<<>>) \o EncInt(0) \o EncInt(1) \o PartUnknown

(* molecules and puzzles *)
MoleculeA ==
    EncInt(2) \o <<1>> \o EncHexB(0, 0) \o <<4>> \o EncHexB(1, 0)
      \o EncInt(1) \o <<1>> \o EncHexB(0, 0) \o EncHexB(1, 0)

MoleculeB == EncInt(1) \o <<7>> \o EncHexB(0, -1) \o EncInt(0)

PuzzleA ==
    EncInt(3) \o EncStr(<<80, 122>>)
      \o <<1, 0, 0, 0, 0, 0, 0, 0>> \o <<15, 23, 192, 7, 0, 0, 0, 128>>
      \o EncInt(1) \o MoleculeA \o EncInt(1) \o MoleculeB \o EncInt(1)
      \o <<1, 0, 0, 1>>
      \o EncInt(1) \o EncHexB(0, 0) \o EncStr(<<83, 109, 97, 108, 108>>)
      \o EncInt(1) \o EncHexB(0, 0) \o EncHexB(3, 0) \o EncInt(1) \o EncHexB(1, 0)

PuzzleB ==
    EncInt(3) \o EncStr(<<>>)
      \o <<0, 0, 0, 0, 0, 0, 0, 0>> \o <<255, 255, 255, 255, 0, 0, 0, 0>>
      \o EncInt(0) \o EncInt(1) \o MoleculeB \o EncInt(2) \o <<0>>

BasePuzzles == {PuzzleA, PuzzleB}

BaseSolutions == {SolutionA, SolutionB}

BaseParts == {PartArm, PartTrack, PartPipe, PartPiston, PartUnknown}

In(o, b) == [op |-> o, elem |-> "", buf |-> b]

PuzzleInputs == {In("parse_puzzle", b) : b \in UNION {Variants(x) : x \in BasePuzzles}}

SolutionInputs ==
    {In("parse_solution", b) :
        b \in UNION {Variants(x) : x \in BaseSolutions} \cup {SolutionC, SolutionD}}

PartInputs ==
    {In("parse_part", b) : b \in UNION {Variants(x) : x \in BaseParts} \cup {PartArmLast}}

(* metrics: every order of sentinels, other discriminators, cut bodies *)
MetricsInputs ==
    {In("parse_metrics", EncInts(<<4, s[1], 120, s[2], 45, s[3], 9, s[4], 30>>)) :
        s \in [1..4 -> 0..3]}
    \cup {In("parse_metrics", EncInt(t) \o SubSeq(MetricsBody, 5, 36)) :
             t \in {-1, 0, 1, 3, 5, 7, 1024}}
    \cup {In("parse_metrics", b) : b \in Prefixes(MetricsBody)}

BondTypeInputs == {In("parse_bond_type", <<b>>) : b \in 0..255} \cup {In("parse_bond_type", <<>>)}

VarBytes == {0, 1, 127, 128, 129, 255}

RECURSIVE SeqsUpTo(_, _)
SeqsUpTo(S, n) ==
    IF n = 0 THEN {<<>>}
    ELSE LET R == SeqsUpTo(S, n - 1) IN
         R \cup {Append(r, x) : r \in {q \in R : Len(q) = n - 1}, x \in S}

VarIntInputs == {In("parse_var_int", b) : b \in SeqsUpTo(VarBytes, MaxVarIntLen)}

(* lists: a count, then k well-formed elements, the bad-th of them (if any) *)
(* carrying an instruction code that is not in the table                    *)
ListCounts == {I32Min, -1, 2147483647} \cup 0..(MaxListLen + 1)

HexStream(k) == Flat([i \in 1..k |-> EncHexB(i, -i)])

InstrStream(k, bad) == Flat([i \in 1..k |-> EncInt(i) \o <<IF i = bad THEN 0 ELSE 71>>])

ListInputs ==
    {[op |-> "parse_list", elem |-> "parse_b_hex_index", buf |-> EncInt(n) \o HexStream(k)] :
        n \in ListCounts, k \in 0..MaxListLen}
    \cup {[op |-> "parse_list", elem |-> "parse_instruction",
           buf |-> EncInt(n) \o InstrStream(k, bad)] :
             n \in ListCounts, k \in 0..MaxListLen, bad \in 0..MaxListLen}

(* molecules: every atom list and bond list over a few entries *)
AtomEntries == {<<1>> \o EncHexB(0, 0), <<4>> \o EncHexB(0, 0),
                <<1>> \o EncHexB(1, -1), <<4>> \o EncHexB(1, -1)}

BondEntries == {<<1>> \o EncHexB(0, 0) \o EncHexB(1, -1),
                <<1>> \o EncHexB(1, -1) \o EncHexB(0, 0),
                <<6>> \o EncHexB(0, 0) \o EncHexB(1, -1)}

MoleculeInputs ==
    {In("parse_molecule", EncInt(Len(a)) \o Flat(a) \o EncInt(Len(b)) \o Flat(b)) :
        a \in SeqsUpTo(AtomEntries, MaxAtoms), b \in SeqsUpTo(BondEntries, MaxBonds)}

(* a version that is not the format's, before every cut of a well-formed rest *)
VersionInputs ==
    {In("parse_puzzle", EncInt(v) \o t) :
        v \in {2, 7, -1}, t \in Variants(SliceFrom(PuzzleB, 4))}
    \cup {In("parse_solution", EncInt(v) \o t) :
             v \in {3, 6, 8}, t \in Variants(SliceFrom(SolutionC, 4))}

Inputs ==
    PuzzleInputs \cup SolutionInputs \cup PartInputs \cup MetricsInputs
      \cup VersionInputs \cup BondTypeInputs \cup VarIntInputs \cup ListInputs \cup MoleculeInputs

----------------------------------------------------------------------------
(* One call of a decoder entry on a buffer *)

NoResult == [st |-> "none", val |-> <<>>, err |-> "", data |-> <<>>]

Init ==
    /\ \E in \in Inputs : op = in.op /\ elem = in.elem /\ buf = in.buf
    /\ overflow_checks \in BOOLEAN
    /\ pc = "ready"
    /\ res = NoResult

Return(r) ==
    /\ pc = "ready"
    /\ res' = r
    /\ pc' = "done"
    /\ UNCHANGED <<op, elem, buf, overflow_checks>>

CallParsePuzzle == op = "parse_puzzle" /\ Return(parse_puzzle(buf))

CallParseSolution == op = "parse_solution" /\ Return(parse_solution(buf))

CallParsePart == op = "parse_part" /\ Return(parse_part(buf))

CallParseMetrics == op = "parse_metrics" /\ Return(parse_metrics(buf))

CallParseBondType == op = "parse_bond_type" /\ Return(parse_bond_type(buf))

CallParseVarInt == op = "parse_var_int" /\ Return(parse_var_int(buf))

CallParseList == op = "parse_list" /\ Return(parse_list(buf, elem))

CallParseMolecule == op = "parse_molecule" /\ Return(parse_molecule(buf))

Next ==
    \/ CallParsePuzzle
    \/ CallParseSolution
    \/ CallParsePart
    \/ CallParseMetrics
    \/ CallParseBondType
    \/ CallParseVarInt
    \/ CallParseList
    \/ CallParseMolecule

Spec == Init /\ [][Next]_vars

(* the bases are well-formed: each decodes, and to its last byte *)
BasesDecode ==
    /\ \A b \in BasePuzzles : parse_puzzle(b).st = "ok" /\ parse_puzzle(b).data = <<>>
    /\ \A b \in BaseSolutions : parse_solution(b).st = "ok" /\ parse_solution(b).data = <<>>
    /\ \A b \in BaseParts \ {PartUnknown} : parse_part(b).st = "ok" /\ parse_part(b).data = <<>>

----------------------------------------------------------------------------
(* What the claims speak of, read off the buffer by the format's layout *)

Done(o) == pc = "done" /\ op = o

Consumed == Len(buf) - Len(res.data)

I32At(b, off) == i32_from_le_bytes(SubSeq(b, off + 1, off + 4))

Bit(b, i) == (b \div (2 ^ i)) % 2

EofErrors ==
    {"not enough bytes", "not enough bytes to read int",
     "not enough bytes to read long", "not enough bytes to read ulong"}

IsCutOf(bases, b) == \E x \in bases : Len(b) < Len(x) /\ b = SubSeq(x, 1, Len(b))

(* C1: a puzzle or solution buffer that ends before a field it requires is   *)
(* complete decodes to the "not enough bytes" error: no panic, no other      *)
(* error, no record.  The buffers are the strict prefixes of buffers that    *)
(* decode to their last byte.                                                *)
C1_CutBufferIsEof ==
    (pc = "done" /\ \/ op = "parse_puzzle" /\ IsCutOf(BasePuzzles, buf)
                    \/ op = "parse_solution" /\ IsCutOf(BaseSolutions, buf))
    => (res.st = "err" /\ res.err \in EofErrors)

(* C2: parse_var_int decodes LEB128: on bytes b0..bk, b0..b(k-1) with the    *)
(* high bit set and bk with it clear, the value is the sum of                *)
(* (bi & 0x7F) << 7i and exactly k+1 bytes are consumed.                     *)
HasLeb128(b) == \E k \in 1..Len(b) : b[k] < 128

Leb128Len(b) == CHOOSE k \in 1..Len(b) : b[k] < 128 /\ \A j \in 1..(k - 1) : b[j] >= 128

RECURSIVE Leb128Sum(_, _)
Leb128Sum(b, k) == IF k = 0 THEN 0 ELSE (b[k] % 128) * (128 ^ (k - 1)) + Leb128Sum(b, k - 1)

C2_VarIntIsLeb128 ==
    (Done("parse_var_int") /\ HasLeb128(buf))
    => /\ res.st = "ok"
       /\ res.val = Leb128Sum(buf, Leb128Len(buf))
       /\ Consumed = Leb128Len(buf)

(* C3: parse_list fails with an error value on a negative count (no panic,   *)
(* no list); on a count n >= 0 whose elements all decode it returns the n    *)
(* results.                                                                  *)
C3_ListCount ==
    (Done("parse_list") /\ Len(buf) >= 4)
    => /\ (I32At(buf, 0) < 0 => res.st = "err")
       /\ (I32At(buf, 0) >= 0 /\ res.st = "ok" => Len(res.val) = I32At(buf, 0))

(* C4: a part's track list is in the stream if and only if its name is       *)
(* "track", its conduit index and conduit list if and only if its name is    *)
(* "pipe"; for every other name the lists are empty, conduit_index is 0 and  *)
(* the record ends right behind the arm number, where the next record        *)
(* starts.  PartSize is the length of a record by the format's layout.       *)
NameOf(ty) == PartTypeTable[CHOOSE i \in DOMAIN PartTypeTable : PartTypeTable[i].ty = ty].name

PartSize(part) ==
    1 + Len(NameOf(part.ty)) + 1 + 8 + 12
      + 4 + 5 * Len(part.instructions)
      + (IF NameOf(part.ty) = NameTrack THEN 4 + 8 * Len(part.track_hexes) ELSE 0)
      + 4
      + (IF NameOf(part.ty) = NamePipe THEN 4 + 4 + 8 * Len(part.conduit_hexes) ELSE 0)

RECURSIVE PartsSize(_)
PartsSize(parts) == IF Len(parts) = 0 THEN 0 ELSE PartSize(parts[1]) + PartsSize(Tail(parts))

PartFieldsByName(part) ==
    /\ NameOf(part.ty) # NameTrack => part.track_hexes = <<>>
    /\ NameOf(part.ty) # NamePipe => part.conduit_hexes = <<>> /\ part.conduit_index = 0

SolutionHeadSize(sol) ==
    4 + 1 + Len(sol.puzzle_name) + 1 + Len(sol.name) + (IF sol.metrics.some THEN 36 ELSE 4) + 4

C4_ConditionalPartFields ==
    /\ (Done("parse_part") /\ res.st = "ok")
       => /\ PartFieldsByName(res.val)
          /\ Consumed = PartSize(res.val)
          /\ SubSeq(buf, 2, 1 + buf[1]) = NameOf(res.val.ty)
    /\ (Done("parse_solution") /\ res.st = "ok")
       => /\ \A i \in DOMAIN res.val.parts : PartFieldsByName(res.val.parts[i])
          /\ Consumed = SolutionHeadSize(res.val) + PartsSize(res.val.parts)

C4_Witness ==
    /\ Done("parse_solution") /\ res.st = "ok" /\ buf = SolutionA
    /\ res.val.parts[1].ty = "Arm" /\ res.val.parts[1].track_hexes = <<>>
    /\ res.val.parts[2].ty = "Track" /\ Len(res.val.parts[2].track_hexes) = 2
    /\ res.data = <<>>

(* C5: the metrics discriminator decides the metrics field: 0 gives none and *)
(* reads nothing more; 4 gives the four values when the sentinels read       *)
(* 0, 1, 2, 3 in that order, and the first sentinel that differs fails the   *)
(* decode with its mismatch error; any other discriminator fails.            *)
SentinelError(i) ==
    CASE i = 0 -> "invalid solution (0 != 0)"
      [] i = 1 -> "invalid solution (1 != 1)"
      [] i = 2 -> "invalid solution (2 != 2)"
      [] i = 3 -> "invalid solution (3 != 3)"

SentinelAt(b, i) == I32At(b, 4 + 8 * i)

ValueAt(b, i) == I32At(b, 8 + 8 * i)

C5_MetricsDiscriminator ==
    (Done("parse_metrics") /\ Len(buf) >= 4)
    => /\ I32At(buf, 0) = 0 => res.st = "ok" /\ res.val = None /\ Consumed = 4
       /\ I32At(buf, 0) \notin {0, 4} => res.st = "err" /\ res.err = "invalid number of metrics"
       /\ I32At(buf, 0) = 4 =>
            /\ \A i \in 0..3 :
                 (/\ Len(buf) >= 8 + 8 * i
                  /\ \A j \in 0..(i - 1) : SentinelAt(buf, j) = j
                  /\ SentinelAt(buf, i) # i)
                 => res.st = "err" /\ res.err = SentinelError(i)
            /\ (Len(buf) >= 36 /\ \A i \in 0..3 : SentinelAt(buf, i) = i)
               => /\ res.st = "ok"
                  /\ res.val = Some([cycles |-> ValueAt(buf, 0), cost |-> ValueAt(buf, 1),
                                     area |-> ValueAt(buf, 2), instructions |-> ValueAt(buf, 3)])
                  /\ Consumed = 36
            /\ res.st = "ok" => Len(buf) >= 36 /\ \A i \in 0..3 : SentinelAt(buf, i) = i

C5_Witness ==
    /\ Done("parse_metrics")
    /\ buf = EncInts(<<4, 1, 120, 0, 45, 2, 9, 3, 30>>)
    /\ res.st = "err" /\ res.err = "invalid solution (0 != 0)"

(* C6: a buffer of at least 4 bytes whose leading int32 is not the format's  *)
(* version (3 for a puzzle, 7 for a solution) fails with the version error   *)
(* with exactly those 4 bytes consumed, whatever follows them.               *)
C6_VersionFirst ==
    /\ (Done("parse_puzzle") /\ Len(buf) >= 4 /\ I32At(buf, 0) # 3)
       => res.st = "err" /\ res.err = "not an opus magnum puzzle" /\ Consumed = 4
    /\ (Done("parse_solution") /\ Len(buf) >= 4 /\ I32At(buf, 0) # 7)
       => res.st = "err" /\ res.err = "not an opus magnum solution" /\ Consumed = 4

C6_Witness ==
    /\ Done("parse_puzzle") /\ buf = EncInt(2) \o SliceFrom(PuzzleB, 4)
    /\ res.err = "not an opus magnum puzzle" /\ res.data = SliceFrom(PuzzleB, 4)

(* C7: parse_bond_type on each byte: 1 is a Normal bond; any other byte with *)
(* a bit set outside bits 1, 2, 3 fails with the bond-type error; every      *)
(* other byte is a Triplex bond with red, black, yellow = bits 1, 2, 3.      *)
C7_BondType ==
    (Done("parse_bond_type") /\ Len(buf) = 1)
    => IF buf[1] = 1
       THEN res.st = "ok" /\ res.val = [kind |-> "Normal"]
       ELSE IF \E i \in {0, 4, 5, 6, 7} : Bit(buf[1], i) = 1
       THEN res.st = "err" /\ res.err = "invalid bond type"
       ELSE /\ res.st = "ok"
            /\ res.val = [kind |-> "Triplex", red |-> Bit(buf[1], 1) = 1,
                          black |-> Bit(buf[1], 2) = 1, yellow |-> Bit(buf[1], 3) = 1]

C7_Witness ==
    /\ Done("parse_bond_type") /\ buf = <<10>>
    /\ res.val = [kind |-> "Triplex", red |-> TRUE, black |-> FALSE, yellow |-> TRUE]

(* C8: the atom map holds, at every position of the decoded atom list, the   *)
(* atom of the last entry at that position (and no other position); the bond *)
(* collection holds every distinct triple of the decoded bond list once.     *)
AtomList(b) == parse_list(b, "parse_atom_entry")

BondList(b) == parse_list(AtomList(b).data, "parse_bond")

LastAt(list, pos) ==
    CHOOSE i \in DOMAIN list :
        list[i][1] = pos /\ \A j \in DOMAIN list : j > i => list[j][1] # pos

MoleculeOf(al, bl, m) ==
    /\ DOMAIN m.atoms = {al[i][1] : i \in DOMAIN al}
    /\ \A pos \in DOMAIN m.atoms : m.atoms[pos] = al[LastAt(al, pos)][2]
    /\ BagToSet(m.bonds) = {bl[i] : i \in DOMAIN bl}
    /\ \A t \in BagToSet(m.bonds) : CopiesIn(t, m.bonds) = 1

C8_MoleculeCollections ==
    (Done("parse_molecule") /\ res.st = "ok")
    => MoleculeOf(AtomList(buf).val, BondList(buf).val, res.val)

C8_Witness ==
    /\ Done("parse_molecule") /\ res.st = "ok"
    /\ Len(AtomList(buf).val) = 3 /\ Cardinality(DOMAIN res.val.atoms) = 1
    /\ AtomList(buf).val[1][2] # AtomList(buf).val[3][2]
    /\ Len(BondList(buf).val) = 2 /\ Cardinality(BagToSet(res.val.bonds)) = 1

(* C9: parse_puzzle and parse_solution end with a record or an error value   *)
(* on every buffer, whatever counts it declares.                             *)
C9_RecordOrError ==
    (pc = "done" /\ op \in {"parse_puzzle", "parse_solution"}) => res.st \in {"ok", "err"}

(* C10: a part whose name is not a part type fails with the part-type error  *)
(* exactly when every other field of its record decodes; otherwise the       *)
(* failure of that field is what the decode reports; and no part with such   *)
(* a name is returned.  The record is read off by the layout: name, byte 1,  *)
(* position, three int32, the instruction tape, the arm number.              *)
PartName(b) == SubSeq(b, 2, 1 + b[1])

HasPartName(b) == Len(b) >= 1 /\ b[1] < 128 /\ Len(b) >= 1 + b[1] /\ is_utf8(PartName(b))

NameUnknown(b) == HasPartName(b) /\ ~PartType_from_name(PartName(b)).some

TapeAt(b) == 1 + b[1] + 1 + 8 + 12

TapeLen(b) == I32At(b, TapeAt(b))

UnknownPartSize(b) == TapeAt(b) + 4 + 5 * TapeLen(b) + 4

FieldsDecode(b) ==
    /\ Len(b) >= TapeAt(b) + 4
    /\ b[1 + b[1] + 1] = 1
    /\ TapeLen(b) >= 0
    /\ Len(b) >= UnknownPartSize(b)
    /\ \A i \in 1..TapeLen(b) : Instruction_from_id(b[TapeAt(b) + 4 + 5 * i]).some
    /\ overflow_checks => I32At(b, UnknownPartSize(b) - 4) # 2147483647

C10_NameResolvedLast ==
    Done("parse_part")
    => /\ (res.st = "ok" /\ HasPartName(buf)) => ~NameUnknown(buf)
       /\ NameUnknown(buf) =>
            IF FieldsDecode(buf)
            THEN res.st = "err" /\ res.err = "invalid part type"
                 /\ Consumed = UnknownPartSize(buf)
            ELSE res.st # "ok" /\ res.err # "invalid part type"

C10_Witness ==
    /\ Done("parse_part") /\ NameUnknown(buf) /\ Len(buf) = Len(PartUnknown)
    /\ res.st = "err" /\ res.err = "invalid solution part (1 != 1)"

====
